---------------------------- MODULE Spec2Model ----------------------------
(***************************************************************************)
(* A model of the masspayout web application: the request builder of       *)
(* app.py (parse_amounts, build_payout_body), the provider client of       *)
(* mass.py (get_access_token, create_payout, get_payout_status,            *)
(* _generate_sender_batch_id, _extract_batch_id) and the two request       *)
(* handlers of app.py (POST /payout, GET /status/<batch_id>).              *)
(*                                                                         *)
(* Text is a sequence of one-character strings, so that splitting,         *)
(* trimming, number parsing and formatting are computed as the code        *)
(* computes them.  Python's None is the record None; a value v that may be *)
(* None is carried as Some(v).                                             *)
(***************************************************************************)
EXTENDS Integers, Sequences, FiniteSets, TLC

VARIABLES
  raw,              \* parse_amounts: the text handed to it
  parsed,           \* parse_amounts: its outcome, or NotYet
  amounts_arg,      \* build_payout_body: the amounts handed to it
  bodies,           \* build_payout_body: the bodies built so far in the process
  payout_response,  \* _extract_batch_id: the response document handed to it
  extracted,        \* _extract_batch_id: its outcome, or NotExtracted
  environ,          \* os.environ: PAYPAL_CLIENT_ID and PAYPAL_CLIENT_SECRET
  session,          \* the Flask session: paypal_client_id and paypal_client_secret
  pc,               \* where the request being served stands ("idle": none is)
  route,            \* the route of the request being served, or of the last one
  form,             \* request.form of the POST /payout being served, or of the last one
  locals,           \* the handler's local variables
  calls,            \* the remote calls of the request being served, or of the last one
  response,         \* what the last request answered
  provider,         \* the payout batches the provider has accepted
  nreq,             \* the requests served so far
  intent,           \* the payouts the user has meant to make so far
  lastBoth          \* the last pair of credentials a form supplied in full

parseVars == <<raw, parsed>>
buildVars == <<amounts_arg, bodies>>
extractVars == <<payout_response, extracted>>
webVars == <<environ, session, pc, route, form, locals, calls, response, provider,
             nreq, intent, lastBoth>>
vars == <<raw, parsed, amounts_arg, bodies, payout_response, extracted,
          environ, session, pc, route, form, locals, calls, response, provider,
          nreq, intent, lastBoth>>

---------------------------------------------------------------------------
(* Bounds of the model *)

\* longest text enumerated exhaustively as input of parse_amounts
MaxLen == 4
\* longest amounts list enumerated exhaustively as input of build_payout_body
MaxAmounts == 3
\* length of the one long amounts list (its last item ids need four digits)
WideAmounts == 1001
\* bodies built in one process
MaxBuilds == 3
\* distinct values of the first 16 digits of uuid4().hex
MaxHex == 2
\* distinct values of its last 16 digits
MaxLow == 1
\* entries of a response's links list
MaxLinks == 2
\* requests one session makes
MaxRequests == 2

---------------------------------------------------------------------------
(* Python values *)

None == [has |-> FALSE, v |-> <<>>]
Some(x) == [has |-> TRUE, v |-> x]
NotYet == [ok |-> FALSE, values |-> <<>>, error |-> <<"not", "called">>]

\* all sequences over S of length 0..n
SeqsUpTo(S, n) == UNION {[1..k -> S] : k \in 0..n}

---------------------------------------------------------------------------
(* str methods used by app.py *)

\* str.replace(old, new) for one-character old and new
Replace(s, old, new) == [i \in 1..Len(s) |-> IF s[i] = old THEN new ELSE s[i]]

RECURSIVE SplitFrom(_, _, _)
\* the pieces of s[i..] around each sep, given the piece `cur` read so far
SplitFrom(s, sep, cur) ==
  IF s = <<>> THEN <<cur>>
  ELSE IF Head(s) = sep THEN <<cur>> \o SplitFrom(Tail(s), sep, <<>>)
  ELSE SplitFrom(Tail(s), sep, Append(cur, Head(s)))

\* str.split(sep): always at least one piece, empty pieces kept
Split(s, sep) == SplitFrom(s, sep, <<>>)

\* the characters str.strip() removes, among those of the modelled texts
Whitespace == {" ", "\t", "\n", "\r"}

RECURSIVE LStrip(_)
LStrip(s) == IF s # <<>> /\ Head(s) \in Whitespace THEN LStrip(Tail(s)) ELSE s

RECURSIVE RStrip(_)
RStrip(s) ==
  IF s # <<>> /\ s[Len(s)] \in Whitespace THEN RStrip(SubSeq(s, 1, Len(s) - 1)) ELSE s

\* str.strip()
Strip(s) == RStrip(LStrip(s))

---------------------------------------------------------------------------
(* float(token) and f"{amt:.2f}" *)

DigitChars == <<"0", "1", "2", "3", "4", "5", "6", "7", "8", "9">>
IsDigit(c) == \E d \in 1..10 : DigitChars[d] = c
DigitVal(c) == (CHOOSE d \in 1..10 : DigitChars[d] = c) - 1

RECURSIVE Pow10(_)
Pow10(k) == IF k = 0 THEN 1 ELSE 10 * Pow10(k - 1)

RECURSIVE DigitsVal(_)
\* the number a digit string denotes (0 for the empty string)
DigitsVal(ds) ==
  IF ds = <<>> THEN 0 ELSE 10 * DigitsVal(SubSeq(ds, 1, Len(ds) - 1)) + DigitVal(ds[Len(ds)])

RECURSIVE NatToChars(_)
\* str(n) for a natural number n
NatToChars(n) ==
  IF n < 10 THEN <<DigitChars[n + 1]>> ELSE Append(NatToChars(n \div 10), DigitChars[(n % 10) + 1])

AllDigits(s) == \A i \in 1..Len(s) : IsDigit(s[i])

\* A float: not-a-number, an infinity, or the decimal mant / 10^frac with its sign
\* (the decimal the token denotes; the double nearest to it is what float()
\* returns, and RoundsUp accounts for the difference where it matters).
BadFloat == [kind |-> "bad", neg |-> FALSE, mant |-> 0, frac |-> 0]
NanFloat == [kind |-> "nan", neg |-> FALSE, mant |-> 0, frac |-> 0]
InfFloat(neg) == [kind |-> "inf", neg |-> neg, mant |-> 0, frac |-> 0]
NumFloat(neg, mant, frac) == [kind |-> "num", neg |-> neg, mant |-> mant, frac |-> frac]

\* float() of an unsigned token: inf, infinity, nan, or digits with at most one
\* point and at least one digit.  (Exponents, underscores and upper case are not
\* among the characters of the modelled texts.)
UnsignedFloat(neg, t) ==
  IF t = <<"i", "n", "f">> \/ t = <<"i", "n", "f", "i", "n", "i", "t", "y">> THEN InfFloat(neg)
  ELSE IF t = <<"n", "a", "n">> THEN NanFloat
  ELSE LET parts == Split(t, ".")
       IN IF Len(parts) = 1
          THEN IF t # <<>> /\ AllDigits(t) THEN NumFloat(neg, DigitsVal(t), 0) ELSE BadFloat
          ELSE IF /\ Len(parts) = 2
                  /\ AllDigits(parts[1]) /\ AllDigits(parts[2])
                  /\ Len(parts[1]) + Len(parts[2]) > 0
               THEN NumFloat(neg, DigitsVal(parts[1] \o parts[2]), Len(parts[2]))
               ELSE BadFloat

\* float(token); "bad" stands for the ValueError it raises
ParseFloat(token) ==
  LET t == Strip(token)
  IN IF t # <<>> /\ Head(t) \in {"+", "-"}
     THEN UnsignedFloat(Head(t) = "-", Tail(t))
     ELSE UnsignedFloat(FALSE, t)

\* amt <= 0 (false of nan, as every comparison with nan is)
NotPositive(amt) ==
  \/ amt.kind = "num" /\ (amt.mant = 0 \/ amt.neg)
  \/ amt.kind = "inf" /\ amt.neg

RECURSIVE Pow2Mod(_, _)
\* 2^s mod b
Pow2Mod(s, b) == IF s = 0 THEN 1 % b ELSE (2 * Pow2Mod(s - 1, b)) % b

RECURSIVE Log2Floor(_, _, _)
\* floor(log2(n / d)) for n, d > 0, searched from e
Log2Floor(n, d, e) ==
  IF n >= 2 * d THEN Log2Floor(n, 2 * d, e + 1)
  ELSE IF n < d THEN Log2Floor(2 * n, d, e - 1)
  ELSE e

\* Whether the double nearest to the decimal n/200 (n odd: the decimal lies half
\* way between two multiples of 0.01) formats upwards.  When 25 divides n the
\* decimal is a double itself and the tie goes to the even hundredth; otherwise
\* the double has 53 significant bits, and lies above the decimal exactly when
\* the fraction of (n/200) * 2^s, s = 52 - floor(log2(n/200)), exceeds 1/2.
TieRoundsUp(n) ==
  IF n % 25 = 0 THEN ((n - 1) \div 2) % 2 = 1
  ELSE LET s == 52 - Log2Floor(n, 200, 0)
           r == ((n % 200) * Pow2Mod(s, 200)) % 200
       IN 2 * r > 200

\* the hundredths f"{amt:.2f}" prints for a positive number amt
Hundredths(amt) ==
  LET p == Pow10(amt.frac)
      scaled == amt.mant * 100
      h == scaled \div p
      rem == scaled % p
  IN IF 2 * rem > p THEN h + 1
     ELSE IF 2 * rem < p THEN h
     ELSE IF TieRoundsUp(2 * h + 1) THEN h + 1 ELSE h

\* f"{amt:.2f}" for amt > 0 or nan
Format2f(amt) ==
  IF amt.kind = "inf" THEN <<"i", "n", "f">>
  ELSE IF amt.kind = "nan" THEN <<"n", "a", "n">>
  ELSE LET h == Hundredths(amt)
       IN NatToChars(h \div 100) \o <<".", DigitChars[((h \div 10) % 10) + 1], DigitChars[(h % 10) + 1]>>

---------------------------------------------------------------------------
(* app.py: parse_amounts *)

\* Tokens splitting at line breaks only
TokensOfLinesOnly(text) ==
  LET pieces == Split(Replace(text, "\r", "\n"), "\n")
      stripped == [i \in 1..Len(pieces) |-> Strip(pieces[i])]
  IN SelectSeq(stripped, LAMBDA t : t # <<>>)

\* line 12-15: the tokens of raw that the loop does not skip
Tokens(text) ==
  LET pieces == Split(Replace(Replace(text, "\r", "\n"), ",", "\n"), "\n")
      stripped == [i \in 1..Len(pieces) |-> Strip(pieces[i])]
  IN SelectSeq(stripped, LAMBDA t : t # <<>>)

\* lines 17-23: whether the loop body raises on this token
TokenRaises(token) ==
  LET amt == ParseFloat(token) IN amt.kind = "bad" \/ NotPositive(amt)

\* parse_amounts(raw): the values it returns, or the ValueError it raises
parse_amounts(text) ==
  LET tokens == Tokens(text)
      badAt == {i \in 1..Len(tokens) : TokenRaises(tokens[i])}
  IN IF badAt # {}
     THEN LET first == CHOOSE i \in badAt : \A j \in badAt : i <= j
          IN [ok |-> FALSE, values |-> <<>>, error |-> <<"Invalid amount: ", tokens[first]>>]
     ELSE IF tokens = <<>>
     THEN [ok |-> FALSE, values |-> <<>>, error |-> <<"At least one amount is required">>]
     ELSE [ok |-> TRUE,
           values |-> [i \in 1..Len(tokens) |-> Format2f(ParseFloat(tokens[i]))],
           error |-> <<>>]

---------------------------------------------------------------------------
(* mass.py: _generate_sender_batch_id, and app.py: build_payout_body *)

\* uuid.uuid4(): 32 random hex digits, carried as the first 16 and the last 16
UUIDs == [hi : 1..MaxHex, lo : 1..MaxLow]

\* f"SB-{uuid.uuid4().hex[:16]}": only the first 16 hex digits are kept
_generate_sender_batch_id(u) == <<"SB-", u.hi>>

RECURSIVE ZeroPad(_, _)
\* digits left-padded with "0" to at least `width` characters
ZeroPad(digits, width) ==
  IF Len(digits) >= width THEN digits ELSE ZeroPad(<<"0">> \o digits, width)

\* the minimum width of format spec 03d
ItemIdWidth == 3

\* SenderItemId without the padding: f"web-{idx}"
SenderItemIdUnpadded(idx) == <<"w", "e", "b", "-">> \o NatToChars(idx)

\* f"web-{idx:03d}"
SenderItemId(idx) == <<"w", "e", "b", "-">> \o ZeroPad(NatToChars(idx), ItemIdWidth)

\* enumerate(amounts, start=1)
FirstIdx == 1

\* build_payout_body(email, amounts, currency, subject, message), u being the
\* uuid4 drawn by _generate_sender_batch_id
build_payout_body(email, amounts, currency, subject, message, u) ==
  [sender_batch_header |->
     [sender_batch_id |-> _generate_sender_batch_id(u),
      recipient_type |-> "EMAIL",
      email_subject |-> subject,
      email_message |-> message],
   items |->
     [k \in 1..Len(amounts) |->
        [amount |-> [value |-> amounts[k], currency |-> currency],
         sender_item_id |-> SenderItemId(FirstIdx + k - 1),
         recipient_wallet |-> "PAYPAL",
         receiver |-> email,
         purpose |-> "GOODS"]]]

---------------------------------------------------------------------------
(* mass.py: _extract_batch_id, over JSON documents as json.loads returns them *)

\* JSON values.  A string is a sequence of lexemes: "/" is a lexeme of its own and
\* no other lexeme holds a "/", so that substring tests and splits at "/" are
\* those of the text.  A dict is the sequence of its <<key, value>> pairs.
JNull == [t |-> "null"]
JStr(s) == [t |-> "str", s |-> s]
JNum(n) == [t |-> "num", n |-> n]
JList(items) == [t |-> "list", items |-> items]
JDict(kv) == [t |-> "dict", kv |-> kv]

\* bool(v)
Truthy(v) ==
  CASE v.t = "null" -> FALSE
    [] v.t = "str" -> v.s # <<>>
    [] v.t = "num" -> v.n # 0
    [] v.t = "list" -> v.items # <<>>
    [] v.t = "dict" -> v.kv # <<>>

\* d.get(key) of a dict d: None (JSON's null) for a missing key
Get(d, key) ==
  IF \E i \in 1..Len(d.kv) : d.kv[i][1] = key
  THEN d.kv[CHOOSE i \in 1..Len(d.kv) : d.kv[i][1] = key][2]
  ELSE JNull

\* a or b
Or(a, b) == IF Truthy(a) THEN a ELSE b

\* sub in s, for strings
Contains(sub, s) ==
  \E i \in 0..(Len(s) - Len(sub)) : SubSeq(s, i + 1, i + Len(sub)) = sub

\* s.rsplit("/", 1)[-1]
RSplitLast(s) ==
  LET at == {i \in 1..Len(s) : s[i] = "/"}
  IN IF at = {} THEN s
     ELSE SubSeq(s, (CHOOSE i \in at : \A j \in at : j <= i) + 1, Len(s))

\* "/v1/payments/payouts/"
PayoutsSegment == <<"/", "v1", "/", "payments", "/", "payouts", "/">>

Return(v) == [kind |-> "return", v |-> v]
Raise(exc) == [kind |-> "raise", v |-> JStr(<<exc>>)]
NotExtracted == [kind |-> "none", v |-> JNull]

RECURSIVE ScanLinks(_)
\* lines 101-105: the loop over the links, then return None
ScanLinks(links) ==
  IF links = <<>> THEN Return(JNull)
  ELSE LET link == Head(links)
       IN IF link.t # "dict" THEN Raise("AttributeError")
          ELSE LET href == Get(link, "href")
               IN IF ~Truthy(href) THEN ScanLinks(Tail(links))
                  ELSE CASE href.t = "str" ->
                              IF Contains(PayoutsSegment, href.s)
                              THEN Return(JStr(RSplitLast(href.s)))
                              ELSE ScanLinks(Tail(links))
                         [] href.t = "num" -> Raise("TypeError")
                         [] href.t = "list" ->
                              IF \E i \in 1..Len(href.items) : href.items[i] = JStr(PayoutsSegment)
                              THEN Raise("AttributeError")
                              ELSE ScanLinks(Tail(links))
                         [] href.t = "dict" -> ScanLinks(Tail(links))

\* line 101: what `for link in payout_response.get("links", []) or []` iterates
\* over (a string yields its characters, a dict its keys: strings either way)
IterateLinks(links) ==
  IF ~Truthy(links) THEN ScanLinks(<<>>)
  ELSE CASE links.t = "list" -> ScanLinks(links.items)
         [] links.t = "num" -> Raise("TypeError")
         [] links.t \in {"str", "dict"} -> Raise("AttributeError")

\* _extract_batch_id(payout_response)
_extract_batch_id(doc) ==
  IF doc.t # "dict" THEN Raise("AttributeError")
  ELSE LET batch_header == Or(Get(doc, "batch_header"), Get(doc, "batchHeader"))
           payout_batch_id ==
             IF batch_header.t = "dict"
             THEN Or(Get(batch_header, "payout_batch_id"), Get(batch_header, "payoutBatchId"))
             ELSE JNull
       IN IF batch_header.t = "dict" /\ Truthy(payout_batch_id)
          THEN Return(payout_batch_id)
          ELSE IterateLinks(Get(doc, "links"))

\* the fixed arguments of the modelled calls: the defaults of lines 83-85
Email == <<"a@b.com">>
Currency == <<"U", "S", "D">>
Subject == <<"You have money!">>
Message == <<"You received a payment. Thanks for using our service!">>

\* hrefs of links: to a payout batch, to the payouts resource itself, elsewhere
HrefWithId == <<"https:", "/", "/", "api", "/", "v1", "/", "payments", "/", "payouts", "/", "Z">>
HrefNoId == <<"https:", "/", "/", "api", "/", "v1", "/", "payments", "/", "payouts", "/">>
HrefOther == <<"https:", "/", "/", "api", "/", "v1", "/", "payments", "/", "W">>

---------------------------------------------------------------------------
(* app.py: the handlers of POST /payout and GET /status/<batch_id>, and the  *)
(* remote calls of mass.py they make.  A request is served in steps, one up  *)
(* to each remote call; requests of the session are served one at a time.    *)

\* bool(s) of a string that may be None
Present(opt) == opt.has /\ opt.v # <<>>

NoSession == [paypal_client_id |-> None, paypal_client_secret |-> None]

\* SessionAfterForm storing each credential the form supplies by itself
SessionAfterFormEachField(sess, form_client_id, form_client_secret) ==
  [paypal_client_id |-> IF form_client_id # <<>> THEN Some(form_client_id) ELSE sess.paypal_client_id,
   paypal_client_secret |-> IF form_client_secret # <<>> THEN Some(form_client_secret)
                            ELSE sess.paypal_client_secret]

\* lines 71-73: the session after a form with these (stripped) credentials
SessionAfterForm(sess, form_client_id, form_client_secret) ==
  IF form_client_id # <<>> /\ form_client_secret # <<>>
  THEN [paypal_client_id |-> Some(form_client_id), paypal_client_secret |-> Some(form_client_secret)]
  ELSE sess

\* lines 75-76 and 110-111: session.get(..) or os.environ.get(..), each value
\* with the place it was read from
ResolveCredentials(sess, env) ==
  [client_id |-> IF Present(sess.paypal_client_id) THEN sess.paypal_client_id ELSE env.PAYPAL_CLIENT_ID,
   id_from |-> IF Present(sess.paypal_client_id) THEN "session" ELSE "environ",
   client_secret |-> IF Present(sess.paypal_client_secret) THEN sess.paypal_client_secret
                     ELSE env.PAYPAL_CLIENT_SECRET,
   secret_from |-> IF Present(sess.paypal_client_secret) THEN "session" ELSE "environ"]

\* what the forms of the session hold
ClientIdInputs == {<<>>, <<"idA">>, <<" ", "idB", " ">>}
ClientSecretInputs == {<<" ">>, <<"secA">>}
EmailInputs == {<<" ">>, <<" ", "a@b.com">>}
AmountsInputs ==
  { <<"-", "5">>,
    <<"5", ".", "0", "0", ",", "1", "0", ".", "0", "0">> }

\* parse_amounts(raw_amounts) for each of them
ParsedInput == [a \in AmountsInputs |-> parse_amounts(Strip(a))]

\* PostValidation without the check of the recipient email
PostValidationWithoutEmail(creds, f) ==
  IF ~Present(creds.client_id) \/ ~Present(creds.client_secret) THEN "credentials"
  ELSE IF ~ParsedInput[f.amounts].ok THEN "amounts"
  ELSE "ok"

\* lines 77, 87 and 91: what stops the submission before any remote call
PostValidation(creds, f) ==
  IF ~Present(creds.client_id) \/ ~Present(creds.client_secret) THEN "credentials"
  ELSE IF Strip(f.email) = <<>> THEN "email"
  ELSE IF ~ParsedInput[f.amounts].ok THEN "amounts"
  ELSE "ok"

\* the responses of the handlers
NoResponse == [kind |-> "none", flash |-> "none", batch_id |-> <<>>]
\* flash(message, "error") and redirect(url_for("index"))
RedirectIndex == [kind |-> "redirect_index", flash |-> "error", batch_id |-> <<>>]
\* flash(.., "warning") and render_template("result.html", .., batch_id=None)
RenderResult == [kind |-> "render_result", flash |-> "warning", batch_id |-> <<>>]
\* redirect(url_for("payout_status", batch_id=batch_id))
RedirectStatus(batch_id) == [kind |-> "redirect_status", flash |-> "none", batch_id |-> batch_id]
\* render_template("status.html", batch_id=batch_id, status=status)
StatusPage(batch_id) == [kind |-> "status_page", flash |-> "none", batch_id |-> batch_id]
\* return message, 500
Error500 == [kind |-> "error_500", flash |-> "none", batch_id |-> <<>>]

NoLocals == [client_id |-> None, id_from |-> "none", client_secret |-> None,
             secret_from |-> "none", sender_batch_id |-> <<>>, token |-> 0, batch_id |-> <<>>]

NoForm == [client_id |-> <<>>, client_secret |-> <<>>, email |-> <<>>, amounts |-> <<>>]

\* f"req-{uuid.uuid4().hex}"
RequestId(u) == <<"req-", u.hi, u.lo>>

\* The provider keeps one batch per sender_batch_id and per PayPal-Request-Id: a
\* batch repeating either is not accepted again.
ProviderAccept(batches, b) ==
  IF \E a \in batches :
       \/ a.sender_batch_id = b.sender_batch_id
       \/ a.request_id = b.request_id
  THEN batches
  ELSE batches \cup {b}

\* lines 96-102: the response to a payout the provider answered with `result`
AfterCreate(result) ==
  LET batch_id == _extract_batch_id(result)
  IN IF batch_id.kind = "raise" THEN RedirectIndex
     ELSE IF ~Truthy(batch_id.v) THEN RenderResult
     ELSE RedirectStatus(batch_id.v.s)

Forms == [client_id : ClientIdInputs, client_secret : ClientSecretInputs,
          email : EmailInputs, amounts : AmountsInputs]

Environs == [PAYPAL_CLIENT_ID : {None, Some(<<"envId">>)},
             PAYPAL_CLIENT_SECRET : {None, Some(<<"envSecret">>)}]

\* what the provider answers a payout it accepted with
ResponseDocuments ==
  { JDict(<<<<"batch_header", JDict(<<<<"payout_batch_id", JStr(<<"X">>)>>>>)>>>>),
    JDict(<<<<"links", JList(<<JDict(<<<<"href", JStr(HrefWithId)>>>>)>>)>>>>),
    JDict(<<<<"batch_header", JDict(<<<<"payout_batch_id", JStr(<<>>)>>>>)>>>>),
    JDict(<<>>),
    JDict(<<<<"links", JList(<<JStr(HrefWithId)>>)>>>>) }

\* the batch ids of the status pages asked for
StatusBatchIds == {<<"X">>, <<"Z">>}

\* the variables of the programs that are not running
ParseIdle == raw = <<>> /\ parsed = NotYet
BuildIdle == amounts_arg = <<>> /\ bodies = <<>>
ExtractIdle == payout_response = JNull /\ extracted = NotExtracted

WebIdle ==
  /\ environ = [PAYPAL_CLIENT_ID |-> None, PAYPAL_CLIENT_SECRET |-> None]
  /\ session = NoSession
  /\ pc = "idle" /\ route = "none" /\ form = NoForm /\ locals = NoLocals
  /\ calls = <<>> /\ response = NoResponse /\ provider = {}
  /\ nreq = 0 /\ intent = 0 /\ lastBoth = None

Init ==
  /\ environ \in Environs
  /\ session = NoSession
  /\ pc = "idle" /\ route = "none" /\ form = NoForm /\ locals = NoLocals
  /\ calls = <<>> /\ response = NoResponse /\ provider = {}
  /\ nreq = 0 /\ intent = 0 /\ lastBoth = None
  /\ ParseIdle /\ BuildIdle /\ ExtractIdle

pureVars == <<raw, parsed, amounts_arg, bodies, payout_response, extracted>>

\* the user was told that a remote call of the last submission failed
ToldFailed ==
  /\ route = "payout" /\ response = RedirectIndex
  /\ calls # <<>> /\ ~calls[Len(calls)].ok

\* create_payout_route, lines 67-93: the session is updated, the submission
\* validated, the amounts parsed and the body built.  The user submits a new
\* payout, or the same form again after being told that a remote call failed.
PostPayout ==
  /\ pc = "idle" /\ nreq < MaxRequests
  /\ \E f \in Forms, again \in BOOLEAN :
       LET sess == SessionAfterForm(session, Strip(f.client_id), Strip(f.client_secret))
           creds == ResolveCredentials(sess, environ)
       IN /\ again => (ToldFailed /\ f = form)
          /\ session' = sess
          /\ form' = f
          /\ route' = "payout"
          /\ calls' = <<>>
          /\ nreq' = nreq + 1
          /\ intent' = IF again THEN intent ELSE intent + 1
          /\ lastBoth' = IF Strip(f.client_id) # <<>> /\ Strip(f.client_secret) # <<>>
                         THEN Some(<<Strip(f.client_id), Strip(f.client_secret)>>)
                         ELSE lastBoth
          /\ IF PostValidation(creds, f) = "ok"
             THEN /\ pc' = "post_token"
                  /\ \E u \in UUIDs :
                       LET body == build_payout_body(Strip(f.email), ParsedInput[f.amounts].values,
                                                     Currency, Subject, Message, u)
                       IN locals' = [NoLocals EXCEPT
                                       !.client_id = creds.client_id,
                                       !.id_from = creds.id_from,
                                       !.client_secret = creds.client_secret,
                                       !.secret_from = creds.secret_from,
                                       !.sender_batch_id = body.sender_batch_header.sender_batch_id]
                  /\ response' = NoResponse
             ELSE /\ pc' = "idle"
                  /\ locals' = NoLocals
                  /\ response' = RedirectIndex
  /\ UNCHANGED <<environ, provider, pureVars>>

\* payout_status, lines 109-113
GetStatus ==
  /\ pc = "idle" /\ nreq < MaxRequests
  /\ \E batch_id \in StatusBatchIds :
       LET creds == ResolveCredentials(session, environ)
       IN /\ route' = "status"
          /\ calls' = <<>>
          /\ nreq' = nreq + 1
          /\ IF Present(creds.client_id) /\ Present(creds.client_secret)
             THEN /\ pc' = "status_token"
                  /\ locals' = [NoLocals EXCEPT !.client_id = creds.client_id,
                                                !.id_from = creds.id_from,
                                                !.client_secret = creds.client_secret,
                                                !.secret_from = creds.secret_from,
                                                !.batch_id = batch_id]
                  /\ response' = NoResponse
             ELSE /\ pc' = "idle"
                  /\ locals' = NoLocals
                  /\ response' = Error500
  /\ UNCHANGED <<environ, session, form, provider, intent, lastBoth, pureVars>>

\* the record of a remote call: its credentials or token, and how it ended
TokenCall(ok, token) ==
  [op |-> "token", ok |-> ok, token |-> token, id_from |-> locals.id_from,
   secret_from |-> locals.secret_from, result |-> JNull]
CreateCall(ok, result) ==
  [op |-> "create", ok |-> ok, token |-> locals.token, id_from |-> "none",
   secret_from |-> "none", result |-> result]
StatusCall(ok) ==
  [op |-> "status", ok |-> ok, token |-> locals.token, id_from |-> "none",
   secret_from |-> "none", result |-> JNull]

\* lines 94 and 114, mass.get_access_token returning a token: the one the
\* provider issues to this request, its nreq-th
GetAccessTokenReturns ==
  /\ pc \in {"post_token", "status_token"}
  /\ calls' = Append(calls, TokenCall(TRUE, nreq))
  /\ locals' = [locals EXCEPT !.token = nreq]
  /\ pc' = IF pc = "post_token" THEN "post_create" ELSE "status_fetch"
  /\ UNCHANGED <<environ, session, route, form, response, provider, nreq, intent, lastBoth, pureVars>>

\* GetAccessTokenRaises with the token exchange tried again
GetAccessTokenRaisesThenRetries ==
  /\ pc \in {"post_token", "status_token"}
  /\ calls' = Append(calls, TokenCall(FALSE, 0))
  /\ UNCHANGED <<environ, session, pc, route, form, locals, response, provider, nreq, intent,
                 lastBoth, pureVars>>

\* lines 94 and 114, mass.get_access_token raising (transport failure, an
\* HTTP error, no access_token in the answer), and lines 103-105 or 117-118
GetAccessTokenRaises ==
  /\ pc \in {"post_token", "status_token"}
  /\ calls' = Append(calls, TokenCall(FALSE, 0))
  /\ locals' = NoLocals
  /\ response' = IF pc = "post_token" THEN RedirectIndex ELSE Error500
  /\ pc' = "idle"
  /\ UNCHANGED <<environ, session, route, form, provider, nreq, intent, lastBoth, pureVars>>

\* the batch mass.create_payout posts, under the request id it draws
PostedBatch(u) ==
  [sender_batch_id |-> locals.sender_batch_id, request_id |-> RequestId(u), intent |-> intent]

\* line 95, mass.create_payout returning the provider's answer, and lines 96-102
CreatePayoutReturns ==
  /\ pc = "post_create"
  /\ \E u \in UUIDs, result \in ResponseDocuments :
       /\ provider' = ProviderAccept(provider, PostedBatch(u))
       /\ calls' = Append(calls, CreateCall(TRUE, result))
       /\ response' = AfterCreate(result)
  /\ locals' = NoLocals
  /\ pc' = "idle"
  /\ UNCHANGED <<environ, session, route, form, nreq, intent, lastBoth, pureVars>>

\* line 95, mass.create_payout raising, and lines 103-105: the provider refused
\* the batch or was not reached, or it accepted the batch and its answer was lost
CreatePayoutRaises ==
  /\ pc = "post_create"
  /\ \E u \in UUIDs, accepted \in BOOLEAN :
       provider' = IF accepted THEN ProviderAccept(provider, PostedBatch(u)) ELSE provider
  /\ calls' = Append(calls, CreateCall(FALSE, JNull))
  /\ response' = RedirectIndex
  /\ locals' = NoLocals
  /\ pc' = "idle"
  /\ UNCHANGED <<environ, session, route, form, nreq, intent, lastBoth, pureVars>>

\* line 115, mass.get_payout_status returning, and line 116
GetPayoutStatusReturns ==
  /\ pc = "status_fetch"
  /\ calls' = Append(calls, StatusCall(TRUE))
  /\ response' = StatusPage(locals.batch_id)
  /\ locals' = NoLocals
  /\ pc' = "idle"
  /\ UNCHANGED <<environ, session, route, form, provider, nreq, intent, lastBoth, pureVars>>

\* line 115, mass.get_payout_status raising, and lines 117-118
GetPayoutStatusRaises ==
  /\ pc = "status_fetch"
  /\ calls' = Append(calls, StatusCall(FALSE))
  /\ response' = Error500
  /\ locals' = NoLocals
  /\ pc' = "idle"
  /\ UNCHANGED <<environ, session, route, form, provider, nreq, intent, lastBoth, pureVars>>

Next ==
  \/ PostPayout
  \/ GetStatus
  \/ GetAccessTokenReturns
  \/ GetAccessTokenRaises
  \/ CreatePayoutReturns
  \/ CreatePayoutRaises
  \/ GetPayoutStatusReturns
  \/ GetPayoutStatusRaises

Spec == Init /\ [][Next]_vars

---------------------------------------------------------------------------
(* parse_amounts as a program: every text of the bounded input set is parsed *)

\* the characters of the exhaustively enumerated texts
Alphabet == {"0", "1", "5", ".", "-", ",", "\n", "\r", " ", "i", "n", "f", "a"}

\* the texts of the specification's examples
ExampleTexts ==
  { <<"1", "0", ",", "2", "0", ".", "5", "\n", "0", ".", "9", "9">>,
    <<" ", " ", " ">>,
    <<"-", "5">>,
    <<"a", "b", "c">>,
    <<"5", ".", "0", "0", ",", "1", "0", ".", "0", "0">>,
    <<" ", "1", ".", "0", "0", "5", ",", "\t", "2", ".", "6", "7", "5", "\r", "\n">> }

Texts == SeqsUpTo(Alphabet, MaxLen) \cup ExampleTexts

InitParse ==
  /\ raw \in Texts
  /\ parsed = NotYet
  /\ BuildIdle /\ ExtractIdle /\ WebIdle

ParseAmountsCall ==
  /\ parsed = NotYet
  /\ parsed' = parse_amounts(raw)
  /\ UNCHANGED <<raw, buildVars, extractVars, webVars>>

NextParse == ParseAmountsCall

SpecParse == InitParse /\ [][NextParse]_vars

---------------------------------------------------------------------------
(* build_payout_body as a program: one process builds bodies, here from the *)
(* same arguments each time                                                *)

Amount_1_00 == <<"1", ".", "0", "0">>
Amount_0_99 == <<"0", ".", "9", "9">>

AmountLists ==
  (SeqsUpTo({Amount_1_00, Amount_0_99}, MaxAmounts) \ {<<>>})
    \cup {[k \in 1..WideAmounts |-> Amount_1_00]}

InitBuild ==
  /\ amounts_arg \in AmountLists
  /\ bodies = <<>>
  /\ ParseIdle /\ ExtractIdle /\ WebIdle

BuildPayoutBody ==
  /\ Len(bodies) < MaxBuilds
  /\ \E u \in UUIDs :
       bodies' = Append(bodies, build_payout_body(Email, amounts_arg, Currency, Subject, Message, u))
  /\ UNCHANGED <<amounts_arg, parseVars, extractVars, webVars>>

NextBuild == BuildPayoutBody

SpecBuild == InitBuild /\ [][NextBuild]_vars

---------------------------------------------------------------------------
(* _extract_batch_id as a program: every document of the bounded set *)

IdX == JStr(<<"X">>)
IdY == JStr(<<"Y">>)
EmptyStr == JStr(<<>>)

\* a batch-header dict: each identifier field absent, empty or set
HeaderDicts ==
  { JDict(a \o b) :
      a \in {<<>>, <<<<"payout_batch_id", EmptyStr>>>>, <<<<"payout_batch_id", IdX>>>>},
      b \in {<<>>, <<<<"payoutBatchId", EmptyStr>>>>, <<<<"payoutBatchId", IdY>>>>} }

\* what a response may hold under batch_header or batchHeader
HeaderValues == HeaderDicts \cup {JNull, JStr(<<"h">>)}

\* an entry of links: a link object with or without href, or no object at all
LinkValues ==
  { JDict(<<>>),
    JDict(<<<<"rel", JStr(<<"self">>)>>, <<"href", JStr(HrefWithId)>>>>),
    JDict(<<<<"href", JStr(HrefNoId)>>>>),
    JDict(<<<<"href", JStr(HrefOther)>>>>),
    JDict(<<<<"href", JNum(1)>>>>),
    JStr(HrefWithId) }

\* what a response may hold under links
LinksValues ==
  {JList(l) : l \in SeqsUpTo(LinkValues, MaxLinks)} \cup {JNull, JNum(5), JStr(HrefWithId)}

OptField(key, values) == {<<>>} \cup {<<<<key, v>>>> : v \in values}

\* the response documents: JSON objects
Documents ==
  { JDict(a \o b \o c) :
      a \in OptField("batch_header", HeaderValues),
      b \in OptField("batchHeader", HeaderValues),
      c \in OptField("links", LinksValues) }

InitExtract ==
  /\ payout_response \in Documents
  /\ extracted = NotExtracted
  /\ ParseIdle /\ BuildIdle /\ WebIdle

ExtractBatchIdCall ==
  /\ extracted = NotExtracted
  /\ extracted' = _extract_batch_id(payout_response)
  /\ UNCHANGED <<payout_response, parseVars, buildVars, webVars>>

NextExtract == ExtractBatchIdCall

SpecExtract == InitExtract /\ [][NextExtract]_vars

---------------------------------------------------------------------------
(* Properties of parse_amounts *)

\* a decimal string with exactly two fractional digits and a value above zero
IsMonetaryAmount(v) ==
  /\ Len(v) >= 4
  /\ v[Len(v) - 2] = "."
  /\ AllDigits(SubSeq(v, 1, Len(v) - 3))
  /\ AllDigits(SubSeq(v, Len(v) - 1, Len(v)))
  /\ DigitsVal(SubSeq(v, 1, Len(v) - 3) \o SubSeq(v, Len(v) - 1, Len(v))) > 0

\* a comma or a line break
IsSeparator(c) == c \in {",", "\n", "\r"}

\* the tokens of a text as the specification describes them: the stretches
\* between separators, each cut down to its first and last non-blank character,
\* the empty ones left out
ClaimTokens(text) ==
  LET cuts == {0, Len(text) + 1} \cup {i \in 1..Len(text) : IsSeparator(text[i])}
      starts == cuts \ {Len(text) + 1}
      next(a) == CHOOSE b \in cuts : b > a /\ \A c \in cuts : c > a => b <= c
      inked(a) == {i \in (a + 1)..(next(a) - 1) : text[i] \notin Whitespace}
      first(a) == CHOOSE i \in inked(a) : \A j \in inked(a) : i <= j
      last(a) == CHOOSE i \in inked(a) : \A j \in inked(a) : j <= i
      full == {a \in starts : inked(a) # {}}
      nth[k \in 1..Cardinality(full)] ==
        CHOOSE a \in full : Cardinality({b \in full : b < a}) = k - 1
  IN [k \in 1..Cardinality(full) |-> SubSeq(text, first(nth[k]), last(nth[k]))]

\* C4: every value parse_amounts returns is a MonetaryAmount (two fractional
\* digits, finite, above zero), and a token that is no number or is <= 0 makes
\* the call fail.
C4_ValuesAreMonetaryAmounts ==
  parsed # NotYet =>
    /\ parsed.ok => \A i \in 1..Len(parsed.values) : IsMonetaryAmount(parsed.values[i])
    /\ (\E i \in 1..Len(ClaimTokens(raw)) :
          LET amt == ParseFloat(ClaimTokens(raw)[i])
          IN amt.kind = "bad" \/ (amt.kind \in {"num", "inf"} /\ (amt.neg \/ (amt.kind = "num" /\ amt.mant = 0))))
       => ~parsed.ok

Example8 == <<"1", "0", ",", "2", "0", ".", "5", "\n", "0", ".", "9", "9">>

\* C8: parse_amounts splits at commas and line breaks in any mix, trims the
\* tokens and drops the empty ones; it fails when none is left, and otherwise
\* returns one normalized value per token, in the order of the text.
C8_OneValuePerTokenInOrder ==
  parsed # NotYet =>
    LET toks == ClaimTokens(raw)
    IN /\ toks = <<>> => ~parsed.ok
       /\ (toks # <<>> /\ \A i \in 1..Len(toks) : ~TokenRaises(toks[i])) => parsed.ok
       /\ parsed.ok =>
            /\ parsed.values # <<>>
            /\ Len(parsed.values) = Len(toks)
            /\ \A i \in 1..Len(toks) : parsed.values[i] = Format2f(ParseFloat(toks[i]))
       /\ raw = Example8 =>
            parsed.values = << <<"1", "0", ".", "0", "0">>, <<"2", "0", ".", "5", "0">>, <<"0", ".", "9", "9">> >>

\* a text mixing a comma and a line break, with an empty token dropped, parsed
\* into two values
C8_Witness ==
  /\ parsed.ok
  /\ Len(parsed.values) = 2
  /\ \E i, j \in 1..Len(raw) : raw[i] = "," /\ raw[j] = "\n"

---------------------------------------------------------------------------
(* Properties of build_payout_body *)

\* i as three digits below 1000, and as its decimal digits from there on
ClaimDigits(i) ==
  IF i < 1000
  THEN <<DigitChars[(i \div 100) + 1], DigitChars[((i \div 10) % 10) + 1], DigitChars[(i % 10) + 1]>>
  ELSE NatToChars(i)

ItemNumber(item) == DigitsVal(SubSeq(item.sender_item_id, 5, Len(item.sender_item_id)))

\* C5: a body built from N amounts has N items, the i-th with the i-th amount
\* and sender_item_id "web-" and i zero-padded to three digits; the ids are
\* pairwise distinct and increase along the items.
C5_ItemsNumberedInOrder ==
  \A b \in 1..Len(bodies) :
    LET items == bodies[b].items
    IN /\ Len(items) = Len(amounts_arg)
       /\ \A i \in 1..Len(items) :
            /\ items[i].amount.value = amounts_arg[i]
            /\ items[i].sender_item_id = <<"w", "e", "b", "-">> \o ClaimDigits(i)
       /\ Cardinality({items[i].sender_item_id : i \in 1..Len(items)}) = Len(items)
       /\ \A i \in 1..(Len(items) - 1) : ItemNumber(items[i]) < ItemNumber(items[i + 1])

\* a body of at least two items has been built
C5_Witness ==
  /\ bodies # <<>>
  /\ Len(bodies[1].items) >= 2
  /\ bodies[1].items[2].sender_item_id = <<"w", "e", "b", "-", "0", "0", "2">>

\* C3: any two bodies built in one process, also from the same arguments, carry
\* different sender_batch_id values and the same items.
C3_SenderBatchIdsNeverRepeat ==
  \A i, j \in 1..Len(bodies) :
    i < j =>
      /\ bodies[i].sender_batch_header.sender_batch_id # bodies[j].sender_batch_header.sender_batch_id
      /\ bodies[i].items = bodies[j].items

---------------------------------------------------------------------------
(* Properties of _extract_batch_id *)

\* the header objects of a document, under either name
ClaimHeaders(doc) ==
  IF doc.t # "dict" THEN {}
  ELSE {h \in {Get(doc, "batch_header"), Get(doc, "batchHeader")} : h.t = "dict"}

\* the identifiers the header objects hold, under either name
ClaimHeaderIds(doc) ==
  {id \in UNION {{Get(h, "payout_batch_id"), Get(h, "payoutBatchId")} : h \in ClaimHeaders(doc)} :
     Truthy(id)}

\* the entries of links whose href holds the payouts segment, by position
ClaimPayoutLinks(doc) ==
  IF doc.t # "dict" \/ Get(doc, "links").t # "list" THEN {}
  ELSE LET links == Get(doc, "links").items
       IN {i \in 1..Len(links) :
             /\ links[i].t = "dict"
             /\ Get(links[i], "href").t = "str"
             /\ Contains(PayoutsSegment, Get(links[i], "href").s)}

\* C6: _extract_batch_id returns the identifier of the batch header under
\* either naming; only without one, the last path component of the first link
\* to the payouts resource; and None, never an error, when there is neither.
C6_HeaderThenLinksThenNone ==
  extracted # NotExtracted =>
    LET ids == ClaimHeaderIds(payout_response)
        at == ClaimPayoutLinks(payout_response)
    IN /\ extracted.kind = "return"
       /\ ids # {} => extracted.v \in ids
       /\ (ids = {} /\ at # {}) =>
            LET first == CHOOSE i \in at : \A j \in at : i <= j
            IN extracted.v = JStr(RSplitLast(Get(Get(payout_response, "links").items[first], "href").s))
       /\ (ids = {} /\ at = {}) => extracted.v = JNull

---------------------------------------------------------------------------
(* Properties of the handlers *)

\* no credential of one kind in the session or in the environment
ClaimCredentialsAbsent ==
  \/ ~(Present(session.paypal_client_id) \/ Present(environ.PAYPAL_CLIENT_ID))
  \/ ~(Present(session.paypal_client_secret) \/ Present(environ.PAYPAL_CLIENT_SECRET))

\* the submission being served, or the last one served, fails validation
ClaimRejected ==
  /\ route = "payout"
  /\ \/ ClaimCredentialsAbsent
     \/ Strip(form.email) = <<>>
     \/ ~ParsedInput[form.amounts].ok

\* C1: a submission rejected for its credentials, its email or its amounts
\* makes no remote call: it ends at once with the error flashed and the
\* redirect to the form.
C1_NoRemoteCallWhenRejected ==
  ClaimRejected => /\ calls = <<>>
                   /\ pc = "idle"
                   /\ response = RedirectIndex

\* a submission with credentials and an email was rejected for its amounts
C1_Witness ==
  /\ ClaimRejected
  /\ ~ClaimCredentialsAbsent
  /\ Strip(form.email) # <<>>
  /\ response = RedirectIndex

\* C2: a remote call failing during a submission is reported as a flashed
\* error, and submitting the same form again never makes the provider accept a
\* second batch for the payout the user meant to make once.
C2_RetryNeverDoublesThePayout ==
  /\ (route = "payout" /\ \E i \in 1..Len(calls) : ~calls[i].ok) => response = RedirectIndex
  /\ \A a, b \in provider : a.intent = b.intent => a = b

\* C7: when create_payout succeeded and the response yields no batch id, the
\* handler shows the response with a warning (no failure, no redirect, no
\* status call); when it yields one, the handler redirects to its status page.
C7_MissingBatchIdIsDegradedSuccess ==
  (route = "payout" /\ pc = "idle" /\ Len(calls) = 2 /\ calls[2].ok) =>
    LET batch_id == _extract_batch_id(calls[2].result)
    IN /\ \A i \in 1..Len(calls) : calls[i].op # "status"
       /\ IF batch_id.kind = "return" /\ Truthy(batch_id.v)
          THEN response = RedirectStatus(batch_id.v.s)
          ELSE response = RenderResult

\* C9: a request makes at most one token exchange and then, only after it
\* succeeded, one call with the token it returned: create_payout for a
\* submission, get_payout_status for a status page; nothing is called again.
C9_RemoteCallsAreOneShot ==
  /\ Len(calls) <= 2
  /\ route = "none" => calls = <<>>
  /\ Len(calls) >= 1 => /\ calls[1].op = "token"
                        /\ calls[1].ok => calls[1].token = nreq
  /\ Len(calls) = 2 => /\ calls[1].ok
                       /\ calls[2].op = (IF route = "payout" THEN "create" ELSE "status")
                       /\ calls[2].token = calls[1].token
  /\ (pc = "idle" /\ route = "payout" /\ ~ClaimRejected) =>
       Len(calls) = (IF calls[1].ok THEN 2 ELSE 1)
  /\ (pc = "idle" /\ route = "status" /\ ~ClaimCredentialsAbsent) =>
       Len(calls) = (IF calls[1].ok THEN 2 ELSE 1)
  /\ (pc = "idle" /\ route = "status" /\ ClaimCredentialsAbsent) => calls = <<>>

\* a submission has made its token exchange and its one create_payout call
C9_Witness ==
  /\ route = "payout" /\ pc = "idle"
  /\ Len(calls) = 2 /\ calls[2].op = "create" /\ calls[2].ok

\* C10: the session holds both credentials, non-empty and those of the last
\* form that supplied both, or none; and the credentials of a token exchange
\* come both from the session or both from the environment.
C10_SessionCredentialsArePaired ==
  /\ session.paypal_client_id.has = session.paypal_client_secret.has
  /\ session.paypal_client_id.has =>
       /\ session.paypal_client_id.v # <<>>
       /\ session.paypal_client_secret.v # <<>>
  /\ lastBoth.has = session.paypal_client_id.has
  /\ lastBoth.has => lastBoth.v = <<session.paypal_client_id.v, session.paypal_client_secret.v>>
  /\ \A i \in 1..Len(calls) : calls[i].op = "token" => calls[i].id_from = calls[i].secret_from

\* a second form has replaced the cached pair, in a request rejected for its email
C10_Witness ==
  /\ nreq = 2
  /\ route = "payout" /\ response = RedirectIndex /\ calls = <<>>
  /\ Strip(form.email) = <<>>
  /\ session.paypal_client_id = Some(<<"idB">>)
  /\ Strip(form.client_id) = <<"idB">>
  /\ provider # {}

===========================================================================
